---- MODULE Spec2Model ----
(***************************************************************************)
(* Model of superscore's file-backed configuration backend                 *)
(* (src/superscore/backends/filestore.py, class FilestoreBackend).         *)
(*                                                                         *)
(* State: the directory holding the JSON database (the target path and the *)
(* temporary files of store()), the backend instances with their held      *)
(* Root, the class-level caches of each Python process, and the position   *)
(* of every backend inside store().                                        *)
(***************************************************************************)
EXTENDS Integers, Sequences, FiniteSets, TLC

VARIABLES
    target,       \* the file at self.path: <<>> when absent, else <<file>>
    temps,        \* temporary files of the directory, by token: <<>> or <<file>>
    procOf,       \* the Python process each backend instance lives in
    root,         \* self._root of each backend: <<>> for None, else <<Root>>
    own_cache,    \* instance attribute _entry_cache: <<>> when unset, else <<dict>>
    entry_cache,  \* class attribute _entry_cache of each process (an ordered dict)
    own_objs,     \* which object each slot of the instance's _entry_cache holds
    entry_objs,   \* which object each slot of the class's _entry_cache holds
    uuid_link_cache, \* class attribute _uuid_link_cache of each process
    pc,           \* position of each backend in the operation it runs
    ctx,          \* the call that store() was entered from
    tok,          \* temp_path of the store() in flight
    arg,          \* root_node of the store() in flight: <<>> for None
    sdoc,         \* "serialized" of the store() in flight
    fd_stale,     \* the copy fallback's descriptor points at a replaced file
    res,          \* outcome of the last call each process has returned from
    ret,          \* the entry returned by that call: <<>> for none
    faults,       \* whether the file system fails operations in this run
    crashes       \* number of times a process was stopped

vars == <<target, temps, procOf, root, own_cache, entry_cache, own_objs, entry_objs,
          uuid_link_cache, pc, ctx, tok, arg, sdoc, fd_stale, res, ret,
          faults, crashes>>

(***************************************************************************)
(* Bounds and universes                                                    *)
(***************************************************************************)
MaxId == 3
MaxCrashes == 1
\* the temporary files that stores may leave behind in the directory
MaxLeftovers == 1

Ids == 1..MaxId
Backends == {"b1", "b2"}
Procs == {"p1", "p2"}

\* the names _temp_path has drawn: one for each file left behind and one for
\* each backend, so that a store always finds a name no file carries
TokenNames == <<"t1", "t2", "t3", "t4", "t5", "t6">>
Tokens == {TokenNames[i] : i \in 1..(Cardinality(Backends) + MaxLeftovers)}

\* superscore.model: an Entry has a uuid, typed fields (description), owned
\* children and non-owning reference fields.  A reference field holds either
\* the referenced Entry itself ("entry") or its bare identifier ("uuid").
Ref(k, i) == [kind |-> k, uuid |-> i]
Entry(i, d, ch, rf) == [uuid |-> i, description |-> d, children |-> ch, refs |-> rf]
Root(es) == [entries |-> es]
EmptyRoot == Root(<<>>)

(***************************************************************************)
(* Entry.swap_to_uuids: every reference field holding an Entry is rewritten *)
(* to the bare identifier; returns the identifiers now referenced.          *)
(***************************************************************************)
swap_to_uuids(e) ==
    [entry |-> [e EXCEPT !.refs = [k \in DOMAIN e.refs |-> Ref("uuid", e.refs[k].uuid)]],
     uuid_refs |-> {e.refs[k].uuid : k \in DOMAIN e.refs}]

RECURSIVE SwapAll(_)
\* the state of an entry object once flatten_and_cache(entry) has returned:
\* the entry and every owned descendant have been through swap_to_uuids
SwapAll(e) ==
    [swap_to_uuids(e).entry EXCEPT
        !.children = [k \in DOMAIN e.children |-> SwapAll(e.children[k])]]

(***************************************************************************)
(* The caches.  A Python dict keeps insertion order: the entry cache is the *)
(* sequence of its values, each stored under its own uuid.                  *)
(***************************************************************************)
CacheKeys(c) == {c[k].uuid : k \in DOMAIN c}
CacheGet_first(c, i) == c[1]

\* self._entry_cache[meta_id]
CacheGet(c, i) == c[CHOOSE k \in DOMAIN c : c[k].uuid = i]

\* line 88: isinstance(item, UUID); a bare identifier is [kind, uuid]
IsUuid(item) == "kind" \in DOMAIN item

maybe_add_to_cache_append(c, item) == Append(c, item)

maybe_add_to_cache_overwrite(c, item) ==
    IF item.uuid \in CacheKeys(c)
    THEN [k \in DOMAIN c |-> IF c[k].uuid = item.uuid THEN item ELSE c[k]]
    ELSE Append(c, item)

\* FilestoreBackend.maybe_add_to_cache: first write wins
maybe_add_to_cache(c, item) ==
    IF IsUuid(item)
    THEN c
    ELSE IF item.uuid \in CacheKeys(c)
         THEN c
         ELSE Append(c, item)

link_update_assign(l, u, refs) ==
    [i \in (DOMAIN l) \cup {u} |-> IF i = u THEN refs ELSE l[i]]

\* self._uuid_link_cache[u].update(refs) on a defaultdict(set)
link_update(l, u, refs) ==
    [i \in (DOMAIN l) \cup {u} |->
        IF i = u THEN (IF u \in DOMAIN l THEN l[u] ELSE {}) \cup refs ELSE l[i]]

\* The cache holds references (line 95): a slot holds the entry object at
\* `path` of the Root that backend `owner` holds, or an object that no held
\* Root contains (a caller's own entry, or an entry of a Root since dropped).
Obj(o, p) == [owner |-> o, path |-> p]
NoObj == Obj("none", <<>>)

RECURSIVE EntryAt(_, _)
\* the entry at a path of indices: entries[p1].children[p2]...
EntryAt(es, p) ==
    IF Len(p) = 1 THEN es[p[1]] ELSE EntryAt(es[p[1]].children, Tail(p))

\* what the slots of a cache show once the objects of the Root r held by b
\* have changed: a slot holding one of them shows its present state
Refresh(c, objs, b, r) ==
    [k \in DOMAIN c |->
        IF k \in DOMAIN objs /\ objs[k].owner = b
        THEN EntryAt(r.entries, objs[k].path)
        ELSE c[k]]

\* the Root of b is dropped: its objects stay in the cache, under no Root
Detach(objs, b) ==
    [k \in DOMAIN objs |-> IF objs[k].owner = b THEN NoObj ELSE objs[k]]

\* the caches as one traversal sees them: the dict, the objects in its
\* slots, the link cache, and whose object at which path is being visited
Caches(c, objs, l, o) ==
    [cache |-> c, objs |-> objs, links |-> l, owner |-> o, path |-> <<1>>]

\* self.maybe_add_to_cache(item) during a traversal: the slot added, if one
\* is, holds the visited object.  The value recorded for it is the one it
\* has when the traversal returns (SwapAll).
add_to_cache(st, item) ==
    LET c == maybe_add_to_cache(st.cache, SwapAll(item))
    IN  [st EXCEPT !.cache = c,
                   !.objs = IF Len(c) > Len(st.cache)
                            THEN Append(st.objs,
                                        IF st.owner = "none" THEN NoObj
                                        ELSE Obj(st.owner, st.path))
                            ELSE st.objs]

flatten_and_cache_shallow(st, entry) ==
    [add_to_cache(st, entry) EXCEPT
        !.links = link_update(st.links, entry.uuid, swap_to_uuids(entry).uuid_refs)]

RECURSIVE flatten_and_cache(_, _), flatten_children(_, _)
\* lines 79-81: for child in entry.children: maybe_add_to_cache(child);
\* flatten_and_cache(child); st.path is the path of Head(children)
flatten_children(st, children) ==
    IF children = <<>>
    THEN st
    ELSE LET s == flatten_and_cache(add_to_cache(st, Head(children)), Head(children))
         IN  flatten_children(
                [s EXCEPT !.path = [st.path EXCEPT ![Len(st.path)] = @ + 1]],
                Tail(children))

\* FilestoreBackend.flatten_and_cache on the caches st; st.path is the path
\* of entry
flatten_and_cache(st, entry) ==
    LET s1 == flatten_children([st EXCEPT !.path = Append(st.path, 1)], entry.children)
        uuid_refs == swap_to_uuids(entry).uuid_refs
    IN  [add_to_cache([s1 EXCEPT !.path = st.path], entry) EXCEPT
            !.links = link_update(s1.links, entry.uuid, uuid_refs)]

RECURSIVE flatten_root(_, _)
\* lines 68-69 of _load_or_initialize: for entry in self._root.entries
flatten_root(st, entries) ==
    IF entries = <<>>
    THEN st
    ELSE LET s == flatten_and_cache(st, Head(entries))
         IN  flatten_root([s EXCEPT !.path = <<st.path[1] + 1>>], Tail(entries))

\* the held Root after the loop: every entry has been swapped in place
SwapRoot(r) == Root([k \in DOMAIN r.entries |-> SwapAll(r.entries[k])])

(***************************************************************************)
(* Serialization: apischema.serialize(Root, .) written by json.dump, and    *)
(* json.load read back by apischema.deserialize(Root, .).  A document is    *)
(* the JSON value: uuids become strings, dataclasses become objects.        *)
(***************************************************************************)
UuidStr(i) == <<"u1", "u2", "u3", "u4", "u5">>[i]
ParseUuid(s) == CHOOSE i \in 1..5 : UuidStr(i) = s

SerRef(r) == [json |-> IF r.kind = "uuid" THEN "string" ELSE "object",
              uuid |-> UuidStr(r.uuid)]
DesRef(j) == Ref(IF j.json = "string" THEN "uuid" ELSE "entry", ParseUuid(j.uuid))

RECURSIVE SerEntry(_)
SerEntry(e) ==
    [uuid |-> UuidStr(e.uuid),
     description |-> e.description,
     children |-> [k \in DOMAIN e.children |-> SerEntry(e.children[k])],
     refs |-> [k \in DOMAIN e.refs |-> SerRef(e.refs[k])]]

RECURSIVE DesEntry(_)
DesEntry(j) ==
    Entry(ParseUuid(j.uuid), j.description,
          [k \in DOMAIN j.children |-> DesEntry(j.children[k])],
          [k \in DOMAIN j.refs |-> DesRef(j.refs[k])])

serialize(r) == [entries |-> [k \in DOMAIN r.entries |-> SerEntry(r.entries[k])]]
deserialize(j) == Root([k \in DOMAIN j.entries |-> DesEntry(j.entries[k])])

(***************************************************************************)
(* Files.  A file has content and permission bits; its content is empty,    *)
(* a complete document ("full") or a document cut short ("part").           *)
(***************************************************************************)
NoDoc == serialize(EmptyRoot)
File(k, d, m) == [kind |-> k, doc |-> d, mode |-> m]
DefaultMode == "0644"
NewFile == File("empty", NoDoc, DefaultMode)

exists(f) == f # <<>>
st_size_positive(f) == f[1].kind # "empty"
Parses(f) == exists(f) /\ f[1].kind = "full"

\* FilestoreBackend.load on an existing, well-formed file
load(f) == deserialize(f[1].doc)

(***************************************************************************)
(* Backend helpers                                                         *)
(***************************************************************************)
NoCall == [p \in Procs |-> "none"]

\* what a file-system operation can do: succeed, or raise
Outcomes == IF faults THEN BOOLEAN ELSE {TRUE}
StorePcs == {"open", "dump", "copymode", "move", "copy", "copy_write", "copy_stat",
             "copy_unlink", "except"}

\* self._entry_cache: the instance attribute when clear_cache has set one,
\* otherwise the class attribute shared by the instances of the process
CacheOf(b) == IF own_cache[b] = <<>> THEN entry_cache[procOf[b]] ELSE own_cache[b][1]
ObjsOf(b) == IF own_cache[b] = <<>> THEN entry_objs[procOf[b]] ELSE own_objs[b]
LinksOf(b) == uuid_link_cache[procOf[b]]

\* one Python process runs one call at a time
CanCall(b) ==
    /\ pc[b] = "idle"
    /\ \A c \in Backends : procOf[c] = procOf[b] => pc[c] = "idle"

\* the name t is the temp_path of a store in flight
InFlight(t) == \E c \in Backends : pc[c] \in StorePcs /\ tok[c] = t

\* the temporary files no store in flight will remove: left behind by an
\* os.remove that raised or by a process that stopped
Leftovers == {t \in Tokens : temps[t] # <<>> /\ ~InFlight(t)}

\* the names that no file of the directory carries and no store in flight
\* has drawn
FreshNames == {t \in Tokens : temps[t] = <<>> /\ ~InFlight(t)}

\* the first name of TokenNames that is in S
FirstName(S) ==
    TokenNames[CHOOSE i \in DOMAIN TokenNames :
                  TokenNames[i] \in S /\ \A j \in 1..(i - 1) : TokenNames[j] \notin S]

\* FilestoreBackend._temp_path: "_<uuid4()[:8]>_<basename>" in the directory
\* of the target.  The code makes no test of the name: str(uuid4())[:8] is
\* taken to be a fresh name (two draws are equal with probability 2^-32).
\* Which fresh name is drawn makes no difference to any step, so the first
\* one stands for all of them
temp_path(b) ==
    IF FreshNames = {} THEN {} ELSE {FirstName(FreshNames)}

serialized_argument(r, a) ==
    IF a = <<>> THEN serialize(r[1]) ELSE serialize(a[1])

\* lines 134-137 of store: the held Root r without an argument, Root() with one
serialized(r, a) ==
    IF a = <<>> THEN serialize(r[1]) ELSE serialize(EmptyRoot)

\* entry into store(root_node = a) from call c: lines 132-137
EnterStore(b, a, c, held) ==
    \E t \in temp_path(b) :
        /\ pc' = [pc EXCEPT ![b] = "open"]
        /\ tok' = [tok EXCEPT ![b] = t]
        /\ arg' = [arg EXCEPT ![b] = a]
        /\ sdoc' = [sdoc EXCEPT ![b] = serialized(held, a)]
        /\ ctx' = [ctx EXCEPT ![b] = c]
        /\ res' = [res EXCEPT ![procOf[b]] = "none"]
        /\ ret' = [ret EXCEPT ![procOf[b]] = <<>>]

\* the locals of a call that has returned
Leave(b, outcome) ==
    /\ pc' = [pc EXCEPT ![b] = "idle"]
    /\ tok' = [tok EXCEPT ![b] = "t1"]
    /\ arg' = [arg EXCEPT ![b] = <<>>]
    /\ sdoc' = [sdoc EXCEPT ![b] = NoDoc]
    /\ ctx' = [ctx EXCEPT ![b] = "none"]
    /\ res' = [res EXCEPT ![procOf[b]] = outcome]
    /\ ret' = [ret EXCEPT ![procOf[b]] = <<>>]

\* self._entry_cache of b becomes c, its slots holding the objects objs
SetCache(b, c, objs) ==
    IF own_cache[b] = <<>>
    THEN /\ entry_cache' = [entry_cache EXCEPT ![procOf[b]] = c]
         /\ entry_objs' = [entry_objs EXCEPT ![procOf[b]] = objs]
         /\ UNCHANGED <<own_cache, own_objs>>
    ELSE /\ own_cache' = [own_cache EXCEPT ![b] = <<c>>]
         /\ own_objs' = [own_objs EXCEPT ![b] = objs]
         /\ UNCHANGED <<entry_cache, entry_objs>>

\* lines 68-71 of _load_or_initialize on the Root r now held by b; the
\* entries of a Root just loaded are new objects
Flatten(b, r) ==
    \E held \in {SwapRoot(r)} :
        /\ root' = [root EXCEPT ![b] = <<held>>]
        /\ \E st \in {flatten_root(
                         Caches(CacheOf(b),
                                IF root[b] = <<r>> THEN ObjsOf(b) ELSE Detach(ObjsOf(b), b),
                                LinksOf(b), b),
                         r.entries)} :
              /\ uuid_link_cache' = [uuid_link_cache EXCEPT ![procOf[b]] = st.links]
              /\ SetCache(b, Refresh(st.cache, st.objs, b, held), st.objs)

Memory == <<root, own_cache, entry_cache, own_objs, entry_objs, uuid_link_cache>>
Disk == <<target, temps>>
Env == <<procOf, faults, crashes>>
Locals == <<pc, ctx, tok, arg, sdoc, res, ret>>

(***************************************************************************)
(* Calls                                                                   *)
(***************************************************************************)
\* the Roots a caller passes to store(root_node)
ArgRoots == {Root(<<Entry(1, "a", <<>>, <<>>)>>)}

\* store() and store(root_node) called by the user of the backend.  Without
\* argument on a backend that holds no Root, line 135 is serialize(Root, None),
\* which raises AttributeError before the try block is entered
Store(b) ==
    /\ CanCall(b)
    /\ \E a \in {<<>>} \cup {<<r>> : r \in ArgRoots} :
        IF a = <<>> /\ root[b] = <<>>
        THEN Leave(b, "AttributeError")
        ELSE EnterStore(b, a, "store", root[b])
    /\ UNCHANGED <<Disk, Memory, Env, fd_stale>>

Initialize_unchecked(b) ==
    /\ CanCall(b)
    /\ EnterStore(b, <<EmptyRoot>>, "initialize", root[b])
    /\ UNCHANGED <<Disk, Memory, Env, fd_stale>>

\* FilestoreBackend.initialize, lines 113-117
Initialize(b) ==
    /\ CanCall(b)
    /\ IF exists(target) /\ st_size_positive(target)
       THEN Leave(b, "PermissionError")
       ELSE EnterStore(b, <<EmptyRoot>>, "initialize", root[b])
    /\ UNCHANGED <<Disk, Memory, Env, fd_stale>>

\* lines 61-62 of _load_or_initialize: load() raised FileNotFoundError, the
\* call goes on to line 64; other processes run before it gets there
LoadFailed(b, c) ==
    /\ pc' = [pc EXCEPT ![b] = "initialize"]
    /\ ctx' = [ctx EXCEPT ![b] = c]
    /\ res' = [res EXCEPT ![procOf[b]] = "none"]
    /\ ret' = [ret EXCEPT ![procOf[b]] = <<>>]
    /\ UNCHANGED <<tok, arg, sdoc>>

LoadOrInit_reread(b, scoped) ==
    /\ CanCall(b)
    /\ UNCHANGED <<Disk, Env, fd_stale>>
    /\ IF Parses(target)
       THEN /\ Flatten(b, load(target))
            /\ IF scoped
               THEN EnterStore(b, <<>>, "exit", root'[b])
               ELSE Leave(b, "ok")
       ELSE /\ UNCHANGED Memory
            /\ IF exists(target)
               THEN Leave(b, "JSONDecodeError")
               ELSE LoadFailed(b, IF scoped THEN "root" ELSE "loi")

\* _load_or_initialize, lines 59-62 and 68-71; scoped: entered from
\* _load_and_store_context (the root property), which stores on exit
LoadOrInit(b, scoped) ==
    /\ CanCall(b)
    /\ UNCHANGED <<Disk, Env, fd_stale>>
    /\ IF root[b] # <<>> \/ Parses(target)
       THEN /\ Flatten(b, IF root[b] # <<>> THEN root[b][1] ELSE load(target))
            /\ IF scoped
               THEN EnterStore(b, <<>>, "exit", root'[b])
               ELSE Leave(b, "ok")
       ELSE /\ UNCHANGED Memory
            /\ IF exists(target)
               THEN Leave(b, "JSONDecodeError")
               ELSE LoadFailed(b, IF scoped THEN "root" ELSE "loi")

\* line 64 of _load_or_initialize: self.initialize() on the target as it is
\* by now; its PermissionError ends the call with no Root held and, in the
\* root property, before the store on exit
InitializeMissing(b) ==
    /\ pc[b] = "initialize"
    /\ IF exists(target) /\ st_size_positive(target)
       THEN Leave(b, "PermissionError")
       ELSE EnterStore(b, <<EmptyRoot>>, ctx[b], root[b])
    /\ UNCHANGED <<Disk, Memory, Env, fd_stale>>

load_or_initialize(b) == LoadOrInit(b, FALSE)

RootAccess_readonly(b) == load_or_initialize(b)

\* the root property: with _load_and_store_context(self): return self._root
RootAccess(b) == LoadOrInit(b, TRUE)

\* the entries a caller makes and passes to the cache methods
CallEntries == {Entry(MaxId, "n", <<>>, <<Ref("uuid", 1)>>)}

\* the items a caller passes to maybe_add_to_cache: an entry or an identifier
CallItems == CallEntries \cup {Ref("uuid", 1)}

\* a caller calls FilestoreBackend.flatten_and_cache(entry), lines 73-85
call_flatten_and_cache(b, entry) ==
    /\ CanCall(b)
    /\ \E st \in {flatten_and_cache(
                       Caches(CacheOf(b), ObjsOf(b), LinksOf(b), "none"), entry)} :
           /\ SetCache(b, st.cache, st.objs)
           /\ uuid_link_cache' = [uuid_link_cache EXCEPT ![procOf[b]] = st.links]
    /\ res' = [res EXCEPT ![procOf[b]] = "ok"]
    /\ ret' = [ret EXCEPT ![procOf[b]] = <<>>]
    /\ UNCHANGED <<Disk, Env, fd_stale, root, pc, ctx, tok, arg, sdoc>>

\* a caller calls FilestoreBackend.maybe_add_to_cache(item), lines 87-95: the
\* item goes into the cache as it is
call_maybe_add_to_cache(b, item) ==
    /\ CanCall(b)
    /\ LET c == maybe_add_to_cache(CacheOf(b), item)
       IN  SetCache(b, c, IF Len(c) > Len(CacheOf(b))
                          THEN Append(ObjsOf(b), NoObj)
                          ELSE ObjsOf(b))
    /\ res' = [res EXCEPT ![procOf[b]] = "ok"]
    /\ ret' = [ret EXCEPT ![procOf[b]] = <<>>]
    /\ UNCHANGED <<Disk, Env, fd_stale, root, uuid_link_cache, pc, ctx, tok, arg, sdoc>>

\* FilestoreBackend.clear_cache, lines 204-205
clear_cache(b) ==
    /\ CanCall(b)
    /\ own_cache' = [own_cache EXCEPT ![b] = << <<>> >>]
    /\ own_objs' = [own_objs EXCEPT ![b] = <<>>]
    /\ entry_objs' = [entry_objs EXCEPT ![procOf[b]] = Detach(@, b)]
    /\ root' = [root EXCEPT ![b] = <<>>]
    /\ res' = [res EXCEPT ![procOf[b]] = "ok"]
    /\ ret' = [ret EXCEPT ![procOf[b]] = <<>>]
    /\ UNCHANGED <<Disk, Env, fd_stale, entry_cache, uuid_link_cache,
                   pc, ctx, tok, arg, sdoc>>

\* FilestoreBackend.get_entry, line 182: return self._entry_cache[meta_id]
get_entry(b, meta_id) ==
    /\ CanCall(b)
    /\ IF meta_id \in CacheKeys(CacheOf(b))
       THEN /\ res' = [res EXCEPT ![procOf[b]] = "ok"]
            /\ ret' = [ret EXCEPT ![procOf[b]] = <<CacheGet(CacheOf(b), meta_id)>>]
       ELSE /\ res' = [res EXCEPT ![procOf[b]] = "KeyError"]
            /\ ret' = [ret EXCEPT ![procOf[b]] = <<>>]
    /\ UNCHANGED <<Disk, Env, Memory, fd_stale, pc, ctx, tok, arg, sdoc>>

\* the entries a caller passes to save_entry
SaveEntries == {Entry(i, "n", <<>>, <<>>) : i \in Ids}

\* FilestoreBackend.save_entry, lines 184-189: raise NotImplementedError
save_entry(b, entry) ==
    /\ CanCall(b)
    /\ res' = [res EXCEPT ![procOf[b]] = "NotImplementedError"]
    /\ ret' = [ret EXCEPT ![procOf[b]] = <<>>]
    /\ UNCHANGED <<Disk, Env, Memory, fd_stale, pc, ctx, tok, arg, sdoc>>

\* references a caller gives to a top-level entry of the Root it was handed
NewRefs == {<<>>, <<Ref("entry", MaxId)>>}

\* the caller of the root property changes the references of the first entry;
\* the entry is the object the cache holds (line 95), so the slot shows it too
MutateRoot(b) ==
    /\ CanCall(b)
    /\ root[b] # <<>>
    /\ root[b][1].entries # <<>>
    /\ \E rf \in NewRefs :
        /\ root[b][1].entries[1].refs # rf
        /\ LET held == Root([root[b][1].entries EXCEPT ![1].refs = rf])
           IN  /\ root' = [root EXCEPT ![b] = <<held>>]
               /\ entry_cache' = [entry_cache EXCEPT ![procOf[b]] =
                                    Refresh(@, entry_objs[procOf[b]], b, held)]
               /\ own_cache' = [own_cache EXCEPT ![b] =
                                    IF @ = <<>> THEN @
                                    ELSE <<Refresh(@[1], own_objs[b], b, held)>>]
    /\ UNCHANGED <<Disk, Env, fd_stale, own_objs, entry_objs,
                   uuid_link_cache, Locals>>

(***************************************************************************)
(* The steps of store(), lines 139-151                                     *)
(***************************************************************************)
Goto(b, l) ==
    /\ pc' = [pc EXCEPT ![b] = l]
    /\ UNCHANGED <<ctx, tok, arg, sdoc, res, ret>>

\* store() has returned normally to the call it was entered from
StoreReturns(b) ==
    IF ctx[b] \in {"loi", "root"}
    THEN Goto(b, "reload")
    ELSE Leave(b, "ok")

\* open(temp_path, 'w'): creates the file
Open(b) ==
    /\ pc[b] = "open"
    /\ \E ok \in Outcomes :
        IF ok
        THEN /\ temps' = [temps EXCEPT ![tok[b]] = <<NewFile>>]
             /\ Goto(b, "dump")
        ELSE /\ UNCHANGED temps
             /\ Goto(b, "except")
    /\ UNCHANGED <<target, Memory, Env, fd_stale>>

\* json.dump(serialized, fd, indent=2) and the close of the with block
Dump(b) ==
    /\ pc[b] = "dump"
    /\ \E ok \in Outcomes :
        IF ok
        THEN /\ temps' = [temps EXCEPT ![tok[b]] = <<[@[1] EXCEPT !.kind = "full", !.doc = sdoc[b]]>>]
             /\ Goto(b, "copymode")
        ELSE /\ \E k \in {"empty", "part"} :
                  temps' = [temps EXCEPT ![tok[b]] =
                      <<[@[1] EXCEPT !.kind = k, !.doc = IF k = "part" THEN sdoc[b] ELSE NoDoc]>>]
             /\ Goto(b, "except")
    /\ UNCHANGED <<target, Memory, Env, fd_stale>>

\* if os.path.exists(self.path): shutil.copymode(self.path, temp_path)
CopyMode(b) ==
    /\ pc[b] = "copymode"
    /\ \E ok \in Outcomes :
        IF ~exists(target)
        THEN /\ ok
             /\ UNCHANGED temps
             /\ Goto(b, "move")
        ELSE IF ok
             THEN /\ temps' = [temps EXCEPT ![tok[b]] = <<[@[1] EXCEPT !.mode = target[1].mode]>>]
                  /\ Goto(b, "move")
             ELSE /\ UNCHANGED temps
                  /\ Goto(b, "except")
    /\ UNCHANGED <<target, Memory, Env, fd_stale>>

\* shutil.move(temp_path, self.path): os.rename, and when os.rename raises
\* OSError, copy2 onto the destination followed by os.unlink of the source
Move(b) ==
    /\ pc[b] = "move"
    /\ \E ok \in Outcomes :
        IF ok
        THEN /\ target' = temps[tok[b]]
             /\ temps' = [temps EXCEPT ![tok[b]] = <<>>]
             /\ fd_stale' = [c \in Backends |-> fd_stale[c] \/ pc[c] = "copy_write"]
             /\ StoreReturns(b)
        ELSE /\ UNCHANGED <<target, temps, fd_stale>>
             /\ Goto(b, "copy")
    /\ UNCHANGED <<Memory, Env>>

\* copy2 -> copyfile: open(dst, 'wb') truncates the destination in place
CopyOpen(b) ==
    /\ pc[b] = "copy"
    /\ \E ok \in Outcomes :
        IF ok
        THEN /\ target' = IF exists(target)
                          THEN <<File("empty", NoDoc, target[1].mode)>>
                          ELSE <<NewFile>>
             /\ Goto(b, "copy_write")
        ELSE /\ UNCHANGED target
             /\ Goto(b, "except")
    /\ fd_stale' = [fd_stale EXCEPT ![b] = FALSE]
    /\ UNCHANGED <<temps, Memory, Env>>

\* copyfile writes the source over the open destination.  A descriptor whose
\* file was replaced by another store's rename writes to the unlinked file; two
\* copies into the same file overlay each other, which shows when their
\* documents differ.  A copy that fails may have written nothing (the
\* destination stays as open() left it) or a part.
CopyWrite(b) ==
    /\ pc[b] = "copy_write"
    /\ \E ok \in Outcomes :
        /\ IF fd_stale[b]
           THEN UNCHANGED target
           ELSE IF ok
                THEN IF target[1].kind = "empty" \/ target[1].doc = sdoc[b]
                     THEN target' = <<File("full", sdoc[b], target[1].mode)>>
                     ELSE \E k \in {"full", "part"} :
                            target' = <<File(k, sdoc[b], target[1].mode)>>
                ELSE \/ UNCHANGED target
                     \/ target' = <<File("part", sdoc[b], target[1].mode)>>
        /\ Goto(b, IF ok THEN "copy_stat" ELSE "except")
    /\ UNCHANGED <<temps, Memory, Env, fd_stale>>

\* copy2 -> copystat(src, dst): the times, then the permission bits, then the
\* flags of the source are given to the file at the destination path; a
\* copystat that raises may have set the permission bits already
CopyStat(b) ==
    /\ pc[b] = "copy_stat"
    /\ \E ok \in Outcomes :
        /\ IF ok
           THEN target' = <<[target[1] EXCEPT !.mode = temps[tok[b]][1].mode]>>
           ELSE \/ UNCHANGED target
                \/ target' = <<[target[1] EXCEPT !.mode = temps[tok[b]][1].mode]>>
        /\ Goto(b, IF ok THEN "copy_unlink" ELSE "except")
    /\ fd_stale' = [fd_stale EXCEPT ![b] = FALSE]
    /\ UNCHANGED <<temps, Memory, Env>>

\* os.unlink(src), the last statement of shutil.move after copy2
CopyUnlink(b) ==
    /\ pc[b] = "copy_unlink"
    /\ \E ok \in Outcomes :
        IF ok
        THEN /\ temps' = [temps EXCEPT ![tok[b]] = <<>>]
             /\ StoreReturns(b)
        ELSE /\ UNCHANGED temps
             /\ Goto(b, "except")
    /\ UNCHANGED <<target, Memory, Env, fd_stale>>

\* except BaseException: remove the temporary file if it exists; raise.
\* os.remove (line 150) can raise as well: the file then stays in the
\* directory and the error of os.remove is the one that propagates.  At most
\* MaxLeftovers files are left behind
Except(b) ==
    /\ pc[b] = "except"
    /\ \E ok \in Outcomes :
        IF ok \/ ~exists(temps[tok[b]])
        THEN temps' = [temps EXCEPT ![tok[b]] = <<>>]
        ELSE /\ Cardinality(Leftovers) < MaxLeftovers
             /\ UNCHANGED temps
    /\ fd_stale' = [fd_stale EXCEPT ![b] = FALSE]
    /\ Leave(b, "IOFailure")
    /\ UNCHANGED <<target, Memory, Env>>

Reload_noload(b) ==
    /\ pc[b] = "reload"
    /\ UNCHANGED <<Disk, Env, fd_stale, Memory>>
    /\ Leave(b, "ok")

\* line 65 of _load_or_initialize: self._root = self.load() after initialize,
\* then the flatten loop; in the root property, the store on exit
Reload(b) ==
    /\ pc[b] = "reload"
    /\ UNCHANGED <<Disk, Env, fd_stale>>
    /\ IF Parses(target)
       THEN /\ Flatten(b, load(target))
            /\ IF ctx[b] = "root"
               THEN EnterStore(b, <<>>, "exit", root'[b])
               ELSE Leave(b, "ok")
       ELSE /\ UNCHANGED Memory
            /\ Leave(b, "JSONDecodeError")

\* the process stops: its instances and class attributes are gone, the
\* directory stays as it is
Crash(p) ==
    /\ \E b \in Backends : procOf[b] = p /\ pc[b] # "idle"
    /\ pc' = [b \in Backends |-> IF procOf[b] = p THEN "idle" ELSE pc[b]]
    /\ ctx' = [b \in Backends |-> IF procOf[b] = p THEN "none" ELSE ctx[b]]
    /\ tok' = [b \in Backends |-> IF procOf[b] = p THEN "t1" ELSE tok[b]]
    /\ arg' = [b \in Backends |-> IF procOf[b] = p THEN <<>> ELSE arg[b]]
    /\ sdoc' = [b \in Backends |-> IF procOf[b] = p THEN NoDoc ELSE sdoc[b]]
    /\ res' = [res EXCEPT ![p] = "none"]
    /\ ret' = [ret EXCEPT ![p] = <<>>]
    /\ fd_stale' = [b \in Backends |-> IF procOf[b] = p THEN FALSE ELSE fd_stale[b]]
    /\ root' = [b \in Backends |-> IF procOf[b] = p THEN <<>> ELSE root[b]]
    /\ own_cache' = [b \in Backends |-> IF procOf[b] = p THEN <<>> ELSE own_cache[b]]
    /\ entry_cache' = [entry_cache EXCEPT ![p] = <<>>]
    /\ own_objs' = [b \in Backends |-> IF procOf[b] = p THEN <<>> ELSE own_objs[b]]
    /\ entry_objs' = [entry_objs EXCEPT ![p] = <<>>]
    /\ uuid_link_cache' = [uuid_link_cache EXCEPT ![p] = <<>>]
    /\ crashes < MaxCrashes
    /\ crashes' = crashes + 1
    /\ Cardinality({t \in Tokens : temps[t] # <<>>
                        /\ \A c \in Backends : (pc[c] \in StorePcs /\ tok[c] = t) => procOf[c] = p})
          <= MaxLeftovers
    /\ UNCHANGED <<Disk, procOf, faults>>

(***************************************************************************)
(* Specifications                                                          *)
(***************************************************************************)
InitMemory ==
    /\ root = [b \in Backends |-> <<>>]
    /\ own_cache = [b \in Backends |-> <<>>]
    /\ entry_cache = [p \in Procs |-> <<>>]
    /\ own_objs = [b \in Backends |-> <<>>]
    /\ entry_objs = [p \in Procs |-> <<>>]
    /\ uuid_link_cache = [p \in Procs |-> <<>>]
    /\ pc = [b \in Backends |-> "idle"]
    /\ ctx = [b \in Backends |-> "none"]
    /\ tok = [b \in Backends |-> "t1"]
    /\ arg = [b \in Backends |-> <<>>]
    /\ sdoc = [b \in Backends |-> NoDoc]
    /\ fd_stale = [b \in Backends |-> FALSE]
    /\ res = NoCall
    /\ ret = [p \in Procs |-> <<>>]
    /\ temps = [t \in Tokens |-> <<>>]
    /\ crashes = 0

OneProcess == [b \in Backends |-> "p1"]
TwoProcesses == [b \in Backends |-> IF b = "b1" THEN "p1" ELSE "p2"]

\* documents found on disk when the backends are created
DiskRoots ==
    {Root(<<Entry(1, "a", <<>>, <<Ref("entry", 2)>>), Entry(2, "b", <<>>, <<>>)>>),
     Root(<<Entry(1, "a", <<Entry(2, "b", <<>>, <<Ref("uuid", 1)>>)>>, <<>>)>>)}

\* Spec: two backend instances of one process, created on a path that holds
\* no document yet (no file, or an empty one); the file system can fail any
\* operation of store() and the process can be stopped
Init ==
    /\ InitMemory
    /\ procOf = OneProcess
    /\ faults = TRUE
    /\ target \in {<<>>, <<File("empty", NoDoc, DefaultMode)>>}

StoreSteps(b) ==
    \/ InitializeMissing(b)
    \/ Open(b)
    \/ Dump(b)
    \/ CopyMode(b)
    \/ Move(b)
    \/ Reload(b)

FallbackSteps(b) ==
    \/ CopyOpen(b)
    \/ CopyWrite(b)
    \/ CopyStat(b)
    \/ CopyUnlink(b)
    \/ Except(b)

Next ==
    \/ \E b \in Backends : Store(b)
    \/ \E b \in Backends : Initialize(b)
    \/ \E b \in Backends : load_or_initialize(b)
    \/ \E b \in Backends : RootAccess(b)
    \/ \E b \in Backends : StoreSteps(b)
    \/ \E b \in Backends : FallbackSteps(b)
    \/ \E b \in Backends, e \in CallEntries : call_flatten_and_cache(b, e)
    \/ \E b \in Backends, x \in CallItems : call_maybe_add_to_cache(b, x)
    \/ \E b \in Backends : clear_cache(b)
    \/ \E p \in Procs : Crash(p)

Spec == Init /\ [][Next]_vars

\* the document found on disk by the calls of SpecCalls: an entry that owns
\* a child and references it, the child referencing its owner by identifier
CallRoots ==
    {Root(<<Entry(1, "a", <<Entry(2, "b", <<>>, <<Ref("uuid", 1)>>)>>,
                  <<Ref("entry", 2)>>)>>)}

\* SpecCalls: the same backends and the same failing file system on a path
\* that may hold a document; the calls that read and write the file, in
\* processes that run to the end of their calls
InitCalls ==
    /\ InitMemory
    /\ procOf = OneProcess
    /\ faults = TRUE
    /\ target \in {<<>>, <<File("empty", NoDoc, DefaultMode)>>}
                  \cup {<<File("full", serialize(r), DefaultMode)>> : r \in CallRoots}

NextCalls ==
    \/ \E b \in Backends : Store(b)
    \/ \E b \in Backends : Initialize(b)
    \/ \E b \in Backends : load_or_initialize(b)
    \/ \E b \in Backends : RootAccess(b)
    \/ \E b \in Backends : StoreSteps(b)
    \/ \E b \in Backends : FallbackSteps(b)
    \/ \E b \in Backends : clear_cache(b)

SpecCalls == InitCalls /\ [][NextCalls]_vars

(***************************************************************************)
(* SpecFlatten: the flatten engine on every Root of up to three entries,    *)
(* nested up to two levels, with every assignment of ids to the entries.    *)
(* Two backend instances of one process load the document, flatten it,      *)
(* have their references changed by the caller, and are reset.              *)
(***************************************************************************)
Leaf(i, d, rf) == Entry(i, d, <<>>, rf)

Shapes == {"one", "two", "child", "grandchild", "siblings", "mixed"}

Shape(s, f, r1, r2) ==
    CASE s = "one" -> Root(<<Leaf(f[1], "a", r1)>>)
      [] s = "two" -> Root(<<Leaf(f[1], "a", r1), Leaf(f[2], "b", r2)>>)
      [] s = "child" -> Root(<<Entry(f[1], "a", <<Leaf(f[2], "b", r2)>>, r1)>>)
      [] s = "grandchild" ->
            Root(<<Entry(f[1], "a",
                         <<Entry(f[2], "b", <<Leaf(f[3], "c", <<>>)>>, r2)>>, r1)>>)
      [] s = "siblings" ->
            Root(<<Entry(f[1], "a",
                         <<Leaf(f[2], "b", r2), Leaf(f[3], "c", <<>>)>>, r1)>>)
      [] s = "mixed" ->
            Root(<<Entry(f[1], "a", <<Leaf(f[2], "b", r2)>>, r1),
                   Leaf(f[3], "c", <<>>)>>)

\* the ids of the three entries, up to renaming: every pattern of equal and
\* distinct ids occurs
IdAssignments == {f \in [{1, 2, 3} -> Ids] : f[1] = 1 /\ f[2] <= 2}

FlattenRoots ==
    {Shape(s, f, r1, r2) :
        s \in Shapes, f \in IdAssignments,
        r1 \in {<<>>, <<Ref("entry", 2)>>, <<Ref("uuid", 1)>>,
                <<Ref("entry", 2), Ref("uuid", MaxId)>>},
        r2 \in {<<>>, <<Ref("uuid", 1)>>}}

InitFlatten ==
    /\ InitMemory
    /\ procOf = OneProcess
    /\ faults = FALSE
    /\ target \in {<<File("full", serialize(r), "0600")>> : r \in FlattenRoots}

NextFlatten ==
    \/ \E b \in Backends : load_or_initialize(b)
    \/ \E b \in Backends : MutateRoot(b)
    \/ \E b \in Backends : clear_cache(b)

SpecFlatten == InitFlatten /\ [][NextFlatten]_vars

(***************************************************************************)
(* SpecCache: the caches under every way of filling them.  Two backend      *)
(* instances of one process load a document with a child and a second       *)
(* entry under every assignment of ids, have their references changed, are  *)
(* reset, and have their cache methods called by callers with entries of    *)
(* their own.                                                               *)
(***************************************************************************)
CacheRoots ==
    {Shape("mixed", f, <<Ref("entry", 2)>>, <<>>) : f \in IdAssignments}

InitCache ==
    /\ InitMemory
    /\ procOf = OneProcess
    /\ faults = FALSE
    /\ target \in {<<File("full", serialize(r), "0600")>> : r \in CacheRoots}

NextCache ==
    \/ \E b \in Backends : load_or_initialize(b)
    \/ \E b \in Backends : MutateRoot(b)
    \/ \E b \in Backends, e \in CallEntries : call_flatten_and_cache(b, e)
    \/ \E b \in Backends, x \in CallItems : call_maybe_add_to_cache(b, x)
    \/ \E b \in Backends : clear_cache(b)

SpecCache == InitCache /\ [][NextCache]_vars

\* a document whose entry refers to another entry by bare uuid, found on the
\* path by the backends of SpecEntries and SpecStores
RaceRoots == {Root(<<Leaf(1, "a", <<Ref("uuid", 2)>>)>>)}

(***************************************************************************)
(* SpecEntries: the entry operations of the backend contract on two         *)
(* backend instances of one process that load, look up, save and reset.     *)
(***************************************************************************)
InitEntries ==
    /\ InitMemory
    /\ procOf = OneProcess
    /\ faults = FALSE
    /\ target \in {<<File("full", serialize(r), "0600")>> : r \in DiskRoots \cup RaceRoots}

NextEntries ==
    \/ \E b \in Backends : load_or_initialize(b)
    \/ \E b \in Backends, i \in Ids : get_entry(b, i)
    \/ \E b \in Backends, e \in SaveEntries : save_entry(b, e)
    \/ \E b \in Backends, e \in CallEntries : call_flatten_and_cache(b, e)
    \/ \E b \in Backends, x \in CallItems : call_maybe_add_to_cache(b, x)
    \/ \E b \in Backends : clear_cache(b)

SpecEntries == InitEntries /\ [][NextEntries]_vars

(***************************************************************************)
(* SpecStores: two backends in two processes load from one path, read the   *)
(* root property and store to the path, with and without argument; the      *)
(* file system can fail any operation of a store.                           *)
(***************************************************************************)
InitStores ==
    /\ InitMemory
    /\ procOf = TwoProcesses
    /\ faults = TRUE
    /\ target \in {<<>>} \cup {<<File("full", serialize(r), "0600")>> : r \in RaceRoots}

NextStores ==
    \/ \E b \in Backends : load_or_initialize(b)
    \/ \E b \in Backends : RootAccess(b)
    \/ \E b \in Backends : Store(b)
    \/ \E b \in Backends : StoreSteps(b)
    \/ \E b \in Backends : FallbackSteps(b)

SpecStores == InitStores /\ [][NextStores]_vars

(***************************************************************************)
(* Vocabulary of the properties                                            *)
(***************************************************************************)
RECURSIVE EntriesOf(_)
\* an entry and every entry it owns, at all depths
EntriesOf(e) == {e} \cup UNION {EntriesOf(e.children[k]) : k \in DOMAIN e.children}

RootEntries(r) == UNION {EntriesOf(r.entries[k]) : k \in DOMAIN r.entries}
RootIds(r) == {e.uuid : e \in RootEntries(r)}

RECURSIVE NodeCount(_)
\* the number of entries in a sequence of entries, their descendants included
NodeCount(es) ==
    IF es = <<>> THEN 0
    ELSE 1 + NodeCount(Head(es).children) + NodeCount(Tail(es))

DistinctIds(r) == NodeCount(r.entries) = Cardinality(RootIds(r))

RECURSIVE AttemptsOf(_), ChildAttempts(_)
\* the arguments of the calls of maybe_add_to_cache that flatten_and_cache(e)
\* makes, in the order it makes them: for each child the child (line 80) and
\* the calls of flatten_and_cache(child) (line 81), then e (line 85)
AttemptsOf(e) == ChildAttempts(e.children) \o <<e>>

ChildAttempts(cs) ==
    IF cs = <<>> THEN <<>>
    ELSE <<Head(cs)>> \o AttemptsOf(Head(cs)) \o ChildAttempts(Tail(cs))

RECURSIVE RootAttempts(_)
\* the same for the loop over the entries of the Root, lines 68-69
RootAttempts(es) ==
    IF es = <<>> THEN <<>> ELSE AttemptsOf(Head(es)) \o RootAttempts(Tail(es))

RECURSIVE FirstOccurrences(_)
\* a sequence of entries without those whose id occurred earlier in it
FirstOccurrences(s) ==
    IF s = <<>> THEN <<>>
    ELSE LET front == SubSeq(s, 1, Len(s) - 1)
             last == s[Len(s)]
         IN  IF \E j \in DOMAIN front : front[j].uuid = last.uuid
             THEN FirstOccurrences(front)
             ELSE Append(FirstOccurrences(front), last)

\* which entry a cache slot holds: its id and its description
Idents(c) == [k \in DOMAIN c |-> <<c[k].uuid, c[k].description>>]

RefIds(e) == {e.refs[k].uuid : k \in DOMAIN e.refs}

\* a step of backend b inside a call
Steps(b) == pc[b] # "idle" /\ pc'[b] # pc[b] /\ crashes' = crashes

\* some operation of the store() of b has failed
FailedPcs == {"except", "copy", "copy_write", "copy_stat", "copy_unlink"}

(***************************************************************************)
(* C1.  At every step of store() the target path holds either what it held *)
(* before the step or the complete newly serialized document: the target    *)
(* is never seen empty or cut short.                                        *)
(* Violated: when os.rename raises, shutil.move copies over the target in   *)
(* place (CopyOpen truncates it, CopyWrite fills it).                       *)
(***************************************************************************)
C1_TargetOldOrNew ==
    [][\A b \in Backends :
          (pc[b] \in StorePcs /\ Parses(target)) =>
            \/ target' = target
            \/ /\ exists(target')
               /\ target'[1].kind = "full"
               /\ target'[1].doc = sdoc[b]]_vars

(***************************************************************************)
(* C2.  Once an operation of store() has failed, the target is left as it   *)
(* was, and the call ends by raising with its temporary file removed (a     *)
(* file that os.remove itself failed to remove is not held against the      *)
(* claim).                                                                  *)
(* Violated: a failed os.rename is followed by the in-place copy, which     *)
(* rewrites the target and can let store() return normally.                 *)
(***************************************************************************)
C2_FailureLeavesTarget ==
    [][\A b \in Backends :
          (pc[b] \in FailedPcs /\ Steps(b) /\ Parses(target)) =>
            /\ target' = target
            /\ pc'[b] = "idle" =>
                 /\ res'[procOf[b]] = "IOFailure"
                 /\ \/ temps'[tok[b]] = <<>>
                    \/ pc[b] = "except" /\ temps' = temps]_vars

(***************************************************************************)
(* C3.  When store(R), or store() on a backend holding R, returns, load()   *)
(* of the path gives a Root equal to R.                                     *)
(* Violated: store(R) serializes Root() instead of R.                       *)
(***************************************************************************)
C3_RoundTrip ==
    [][\A b \in Backends :
          (ctx[b] = "store" /\ pc[b] = "move" /\ pc'[b] = "idle"
             /\ res'[procOf[b]] = "ok") =>
            /\ Parses(target')
            /\ load(target') = IF arg[b] = <<>> THEN root[b][1] ELSE arg[b][1]]_vars

(***************************************************************************)
(* C4.  initialize() on a path that exists with non-empty content raises    *)
(* PermissionError without entering store(): the file is unchanged and no   *)
(* temporary file is created.                                               *)
(***************************************************************************)
C4_InitializeRefuses ==
    [][\A b \in Backends :
          (Initialize(b) /\ exists(target) /\ target[1].kind # "empty") =>
            /\ target' = target
            /\ temps' = temps
            /\ pc'[b] = "idle"
            /\ res'[procOf[b]] = "PermissionError"]_vars

C4_Witness ==
    /\ exists(target) /\ target[1].kind = "full"
    /\ \E p \in Procs : res[p] = "PermissionError"
    /\ \A t \in Tokens : temps[t] = <<>>

(***************************************************************************)
(* C5.  When two backends that loaded the document of one path race to    *)
(* store their Roots, which differ, the document on disk is never a        *)
(* mixture of the two:                                                     *)
(* when a store of a held Root returns normally while the other store has  *)
(* written its whole document without any error, the target holds one      *)
(* complete document.  (Only stores in which no operation has raised are   *)
(* held against the claim; the lost update itself is what the claim        *)
(* expects.)                                                               *)
(* Violated: os.rename fails in both stores, shutil.move copies both       *)
(* documents into the target in place, and both stores return normally     *)
(* with the target holding parts of both.                                  *)
(***************************************************************************)
C5_LastRenameWins ==
    [][\A b \in Backends : \A c \in Backends \ {b} :
          (/\ ctx[b] = "store" /\ arg[b] = <<>> /\ pc[b] \in StorePcs
           /\ pc'[b] = "idle" /\ res'[procOf[b]] = "ok"
           /\ ctx[c] = "store" /\ arg[c] = <<>> /\ sdoc[c] # sdoc[b]
           /\ pc[c] \in {"copy_stat", "copy_unlink"})
            => Parses(target')]_vars

(***************************************************************************)
(* C6.  Flattening a Root whose entries have pairwise-distinct ids into     *)
(* empty caches gives an entry cache keyed by exactly the ids of the Root,  *)
(* each id mapped to the entry of the Root with that id, and a link cache   *)
(* keyed by exactly the same ids.                                           *)
(***************************************************************************)
C6_FlattenDistinct ==
    [][\A b \in Backends :
          (load_or_initialize(b) /\ CacheOf(b) = <<>> /\ LinksOf(b) = <<>>
             /\ root'[b] # <<>> /\ DistinctIds(root'[b][1])) =>
            LET r == root'[b][1]
                c == CacheOf(b)'
            IN  /\ CacheKeys(c) = RootIds(r)
                /\ Len(c) = Cardinality(RootIds(r))
                /\ \A i \in RootIds(r) :
                      CacheGet(c, i) \in RootEntries(r) /\ CacheGet(c, i).uuid = i
                /\ DOMAIN LinksOf(b)' = RootIds(r)]_vars

C6_Witness ==
    \E b \in Backends :
        /\ root[b] # <<>> /\ DistinctIds(root[b][1])
        /\ Cardinality(RootIds(root[b][1])) = 3
        /\ \E e \in RootEntries(root[b][1]) :
              e.children # <<>> /\ e.children[1].children # <<>>
        /\ CacheKeys(CacheOf(b)) = RootIds(root[b][1])
        /\ DOMAIN LinksOf(b) = RootIds(root[b][1])

(***************************************************************************)
(* C7.  After flattening a Root into empty caches, the link cache maps the  *)
(* id of every entry e of the Root to exactly the ids e references.         *)
(* Violated when two entries of the Root carry the same id and reference    *)
(* different entries: the set under the id is the union.                    *)
(***************************************************************************)
C7_LinksPerEntry ==
    [][\A b \in Backends :
          (load_or_initialize(b) /\ CacheOf(b) = <<>> /\ LinksOf(b) = <<>>
             /\ root'[b] # <<>>) =>
            \A e \in RootEntries(root'[b][1]) :
                /\ e.uuid \in DOMAIN LinksOf(b)'
                /\ LinksOf(b)'[e.uuid] = RefIds(e)]_vars

\* C7 as amended: the link cache maps every id of the Root to the union of
\* the ids referenced by the entries of the Root that carry this id; an id
\* whose entries reference nothing maps to the empty set
C7_LinksPerId ==
    [][\A b \in Backends :
          (load_or_initialize(b) /\ CacheOf(b) = <<>> /\ LinksOf(b) = <<>>
             /\ root'[b] # <<>>) =>
            /\ DOMAIN LinksOf(b)' = RootIds(root'[b][1])
            /\ \A i \in RootIds(root'[b][1]) :
                  LinksOf(b)'[i] =
                    UNION {RefIds(e) : e \in {x \in RootEntries(root'[b][1]) : x.uuid = i}}]_vars

\* A references B, B references nothing: link cache {A -> {B}, B -> {}}
C7_Witness ==
    \E b \in Backends :
        /\ root[b] # <<>>
        /\ Len(root[b][1].entries) = 2
        /\ DistinctIds(root[b][1])
        /\ RefIds(root[b][1].entries[1]) = {root[b][1].entries[2].uuid}
        /\ RefIds(root[b][1].entries[2]) = {}
        /\ LinksOf(b) = [i \in RootIds(root[b][1]) |->
                            IF i = root[b][1].entries[1].uuid
                            THEN {root[b][1].entries[2].uuid} ELSE {}]

(***************************************************************************)
(* C8.  Running the flatten engine again on a Root that the entry cache     *)
(* already holds the flattening of leaves the entry cache as it was: the    *)
(* same ids in the same order, each mapped to the same entry.               *)
(***************************************************************************)
FirstRun(r) == flatten_root(Caches(<<>>, <<>>, <<>>, "none"), r.entries).cache

C8_FlattenTwice ==
    [][\A b \in Backends :
          (load_or_initialize(b) /\ root'[b] # <<>>
             /\ CacheOf(b) # <<>> /\ CacheOf(b) = FirstRun(root'[b][1])) =>
            CacheOf(b)' = CacheOf(b)]_vars

\* both backends have flattened the same nested Root, with a duplicate id,
\* into the one entry cache: the engine has run on it twice
C8_Witness ==
    /\ root["b1"] # <<>> /\ root["b2"] = root["b1"]
    /\ own_cache["b1"] = <<>> /\ own_cache["b2"] = <<>>
    /\ ~DistinctIds(root["b1"][1])
    /\ Cardinality(RootIds(root["b1"][1])) = 2
    /\ entry_cache["p1"] = FirstRun(root["b1"][1])
    /\ Len(entry_cache["p1"]) = 2

(***************************************************************************)
(* C9.  The caches belong to one backend instance: an instance that holds   *)
(* no Root and has cached nothing sees an empty entry cache and an empty    *)
(* link cache, whatever the other instances have flattened.                 *)
(* Violated: _entry_cache and _uuid_link_cache are class attributes.        *)
(***************************************************************************)
C9_CachesPerInstance ==
    \A b \in Backends :
        (root[b] = <<>> /\ own_cache[b] = <<>>) =>
            /\ CacheOf(b) = <<>>
            /\ LinksOf(b) = <<>>

(***************************************************************************)
(* C10.  clear_cache leaves the backend with no Root, an empty entry cache  *)
(* and an empty link cache.                                                 *)
(* Violated: clear_cache does not touch _uuid_link_cache.                   *)
(***************************************************************************)
C10_ResetClearsAll ==
    [][\A b \in Backends :
          clear_cache(b) =>
            /\ root'[b] = <<>>
            /\ CacheOf(b)' = <<>>
            /\ LinksOf(b)' = <<>>]_vars

(***************************************************************************)
(* C11: the scoped helper of the root property loads or initializes the    *)
(* Root, flattens it into the cache, and on normal exit runs one store()   *)
(* of the held Root: the load-or-initialize that succeeds is followed by   *)
(* the entry into a store without argument whose document is the           *)
(* serialization of the held Root, also when nothing was changed, and when *)
(* that store returns normally the call is over and the document on disk   *)
(* is the serialization of the held Root.                                  *)
(***************************************************************************)
C11_ScopedStore ==
    [][\A b \in Backends :
          /\ (RootAccess(b) /\ (root[b] # <<>> \/ Parses(target))) \/ (Reload(b) /\ ctx[b] = "root" /\ Parses(target))
                => /\ pc'[b] = "open"
                   /\ ctx'[b] = "exit"
                   /\ arg'[b] = <<>>
                   /\ root'[b] # <<>>
                   /\ RootIds(root'[b][1]) \subseteq CacheKeys(CacheOf(b)')
                   /\ sdoc'[b] = serialize(root'[b][1])
          /\ (ctx[b] = "exit" /\ Steps(b) /\ pc'[b] = "idle" /\ res'[procOf[b]] = "ok")
                => /\ Parses(target')
                   /\ target'[1].doc = serialize(root'[b][1])
                   /\ temps'[tok[b]] = <<>>]_vars

\* the store on exit of a root access that changed nothing is about to
\* rename its temporary file, which holds the held Root
C11_Witness ==
    \E b \in Backends :
        /\ ctx[b] = "exit"
        /\ pc[b] = "move"
        /\ root[b] # <<>>
        /\ root[b][1] # EmptyRoot
        /\ temps[tok[b]] # <<>>
        /\ temps[tok[b]][1].kind = "full"
        /\ temps[tok[b]][1].doc = serialize(root[b][1])

(***************************************************************************)
(* C12: on a backend that holds no Root and whose path does not exist,     *)
(* load() fails and _load_or_initialize answers with initialize() and a    *)
(* second load(): it goes on to initialize(), which enters the store of an  *)
(* empty Root, and unless a file operation of that store fails, the call    *)
(* ends with the path holding a valid empty Root document, the held Root    *)
(* being that empty Root, and no error reported.  (The backends of one      *)
(* process: no other process creates the file between load and initialize.) *)
(***************************************************************************)
C12_InitializeOnMissing ==
    [][\A b \in Backends :
          /\ (load_or_initialize(b) /\ root[b] = <<>> /\ ~exists(target))
                => /\ pc'[b] = "initialize"
                   /\ ctx'[b] = "loi"
                   /\ UNCHANGED <<Disk, Memory>>
          /\ (ctx[b] = "loi" /\ Steps(b) /\ pc[b] = "initialize")
                => /\ ~exists(target)
                   /\ pc'[b] = "open"
                   /\ ctx'[b] = "loi"
                   /\ arg'[b] = <<EmptyRoot>>
                   /\ sdoc'[b] = serialize(EmptyRoot)
                   /\ UNCHANGED <<Disk, Memory>>
          /\ (ctx[b] = "loi" /\ Steps(b) /\ pc'[b] = "reload")
                => Parses(target') /\ load(target') = EmptyRoot
          /\ (ctx[b] = "loi" /\ Steps(b) /\ pc'[b] = "idle")
                => \/ /\ pc[b] = "reload"
                      /\ res'[procOf[b]] = "ok"
                      /\ root'[b] = <<EmptyRoot>>
                      /\ Parses(target')
                      /\ load(target') = EmptyRoot
                      /\ temps'[tok[b]] = <<>>
                   \/ /\ pc[b] = "except"
                      /\ res'[procOf[b]] = "IOFailure"]_vars

\* b1 found no file, and now holds the empty Root of the document it created
C12_Witness ==
    /\ pc["b1"] = "idle"
    /\ res["p1"] = "ok"
    /\ root["b1"] = <<EmptyRoot>>
    /\ root["b2"] = <<>>
    /\ target = <<File("full", serialize(EmptyRoot), DefaultMode)>>
    /\ crashes = 0

(***************************************************************************)
(* C13: get_entry(id) returns the entry cached under id when id is a key   *)
(* of the flat cache and fails (KeyError) when it is not; in both cases    *)
(* the held Roots, both caches and the files stay as they are.             *)
(***************************************************************************)
C13_GetEntry ==
    [][\A b \in Backends, i \in Ids :
          get_entry(b, i) =>
            /\ UNCHANGED <<root, own_cache, entry_cache, uuid_link_cache, target, temps>>
            /\ IF \E k \in DOMAIN CacheOf(b) : CacheOf(b)[k].uuid = i
               THEN /\ res'[procOf[b]] = "ok"
                    /\ ret'[procOf[b]] # <<>>
                    /\ ret'[procOf[b]][1].uuid = i
                    /\ \E k \in DOMAIN CacheOf(b) : CacheOf(b)[k] = ret'[procOf[b]][1]
               ELSE /\ res'[procOf[b]] = "KeyError"
                    /\ ret'[procOf[b]] = <<>>]_vars

\* a lookup has returned the second entry of a cache of two
C13_Witness ==
    \E b \in Backends :
        /\ Len(CacheOf(b)) = 2
        /\ res[procOf[b]] = "ok"
        /\ ret[procOf[b]] = <<CacheOf(b)[2]>>

(***************************************************************************)
(* C14: save_entry(entry) inserts the entry into the flat cache when its   *)
(* id is absent, and fails with AlreadyExists when the id is present.      *)
(***************************************************************************)
C14_SaveEntry ==
    [][\A b \in Backends, e \in SaveEntries :
          save_entry(b, e) =>
            IF e.uuid \in CacheKeys(CacheOf(b))
            THEN res'[procOf[b]] = "AlreadyExists"
            ELSE /\ res'[procOf[b]] = "ok"
                 /\ e.uuid \in CacheKeys(CacheOf(b)')]_vars

(***************************************************************************)
(* C15: the flat cache holds at most one entry per id and the first write  *)
(* wins.  A flatten run raises no error; after it no id is cached twice,   *)
(* every slot of the cache still holds the entry it held before, and the   *)
(* slots it added hold, for each id not cached before, the entry with that *)
(* id that the traversal reached first; into an empty cache the result is  *)
(* exactly the first occurrences of the traversal.                         *)
(***************************************************************************)
C15_FirstWriteWins ==
    [][\A b \in Backends :
          (load_or_initialize(b) /\ root'[b] # <<>>) =>
            LET r == IF root[b] # <<>> THEN root[b][1] ELSE load(target)
                before == CacheOf(b)
                after == CacheOf(b)'
            IN  /\ res'[procOf[b]] = "ok"
                /\ Cardinality(CacheKeys(after)) = Len(after)
                /\ Len(before) <= Len(after)
                /\ \A k \in DOMAIN before : Idents(after)[k] = Idents(before)[k]
                /\ Idents(after) = Idents(FirstOccurrences(before \o RootAttempts(r.entries)))
                /\ before = <<>> =>
                     after = [k \in DOMAIN after |->
                                SwapAll(FirstOccurrences(RootAttempts(r.entries))[k])]]_vars

\* a Root in which a child carries the id of its parent was flattened: the
\* cache has fewer entries than the Root and holds the child under that id
C15_Witness ==
    \E b \in Backends :
        /\ root[b] # <<>>
        /\ res[procOf[b]] = "ok"
        /\ Len(CacheOf(b)) < NodeCount(root[b][1].entries)
        /\ \E k \in DOMAIN root[b][1].entries :
              LET e == root[b][1].entries[k]
              IN  /\ e.children # <<>>
                  /\ e.children[1].uuid = e.uuid
                  /\ CacheGet(CacheOf(b), e.uuid).description = e.children[1].description

(***************************************************************************)
(* C16: flattening inserts children before their parent at every depth.    *)
(* When a Root with pairwise-distinct ids is flattened into an empty       *)
(* cache, every entry that an entry E owns, directly or through its        *)
(* children, is inserted into the cache before E.                          *)
(***************************************************************************)
C16_ChildrenBeforeParent ==
    [][\A b \in Backends :
          (load_or_initialize(b) /\ root'[b] # <<>> /\ CacheOf(b) = <<>>) =>
            LET r == IF root[b] # <<>> THEN root[b][1] ELSE load(target)
                after == CacheOf(b)'
                Slot(i) == CHOOSE k \in DOMAIN after : after[k].uuid = i
            IN  DistinctIds(r) =>
                  \A E \in RootEntries(r) :
                     \A D \in EntriesOf(E) \ {E} : Slot(D.uuid) < Slot(E.uuid)]_vars

(***************************************************************************)
(* C17: the link sets only grow.  No step of a backend removes an id from  *)
(* the link cache or an id from one of its sets, and after every flatten   *)
(* run the set of each id of the held Root contains the ids its entries    *)
(* reference now, so that re-flattening a Root whose references changed    *)
(* leaves a superset of the current references.                            *)
(***************************************************************************)
C17_LinksOnlyGrow ==
    [][/\ \A p \in Procs :
            /\ DOMAIN uuid_link_cache[p] \subseteq DOMAIN uuid_link_cache'[p]
            /\ \A i \in DOMAIN uuid_link_cache[p] :
                  uuid_link_cache[p][i] \subseteq uuid_link_cache'[p][i]
       /\ \A b \in Backends :
            (load_or_initialize(b) /\ root'[b] # <<>>) =>
               \A e \in RootEntries(root'[b][1]) :
                  /\ e.uuid \in DOMAIN LinksOf(b)'
                  /\ RefIds(e) \subseteq LinksOf(b)'[e.uuid]]_vars

\* a Root with distinct ids was flattened again after the references of its
\* first entry were changed: the link set of that entry holds its current
\* reference and one it no longer has
C17_Witness ==
    \E b \in Backends :
        /\ root[b] # <<>>
        /\ res[procOf[b]] = "ok"
        /\ DistinctIds(root[b][1])
        /\ LET e == root[b][1].entries[1]
           IN  /\ e.refs # <<>>
               /\ \A k \in DOMAIN e.refs : e.refs[k].kind = "uuid"
               /\ e.uuid \in DOMAIN LinksOf(b)
               /\ RefIds(e) \subseteq LinksOf(b)[e.uuid]
               /\ RefIds(e) # LinksOf(b)[e.uuid]

(***************************************************************************)
(* C18: store(root_node) with an argument discards the argument and writes *)
(* the serialization of an empty Root, whatever the argument and whatever  *)
(* Root the backend holds (initialize() stores this way); store() without  *)
(* argument writes the held Root.  The document is fixed on entry and is   *)
(* what the target holds when the store returns normally.                  *)
(***************************************************************************)
C18_StoreArgument ==
    [][\A b \in Backends :
          /\ (Store(b) \/ Initialize(b)) /\ pc'[b] = "open"
                => /\ arg'[b] # <<>> => sdoc'[b] = serialize(EmptyRoot)
                   /\ arg'[b] = <<>> => root[b] # <<>> /\ sdoc'[b] = serialize(root[b][1])
                   /\ ctx'[b] = "initialize" => arg'[b] # <<>>
          /\ (ctx[b] \in {"store", "initialize"} /\ Steps(b) /\ pc'[b] = "idle"
                /\ res'[procOf[b]] = "ok")
                => /\ Parses(target')
                   /\ arg[b] # <<>> => load(target') = EmptyRoot
                   /\ arg[b] = <<>> => root[b] # <<>> /\ load(target') = root[b][1]]_vars

\* a backend holding a Root with entries is about to rename the temporary
\* file of a store that was given a Root with an entry: the file holds the
\* empty Root
C18_Witness ==
    \E b \in Backends :
        /\ ctx[b] = "store"
        /\ pc[b] = "move"
        /\ arg[b] # <<>>
        /\ arg[b][1] # EmptyRoot
        /\ root[b] # <<>>
        /\ root[b][1] # EmptyRoot
        /\ temps[tok[b]] = <<File("full", serialize(EmptyRoot), target[1].mode)>>

(***************************************************************************)
(* C19: when the stores of two backends on one path interleave under       *)
(* different temporary names, each store touches only its own temporary    *)
(* file and changes the target only by replacing it with its complete      *)
(* document, and once both have returned the temporary file of the call    *)
(* that returned last is gone (unless os.remove itself failed on it) and    *)
(* the target holds the complete document of one of the stores, or, when    *)
(* no store replaced it, what it held before them.                          *)
(***************************************************************************)
C19_InterleavedStores ==
    [][\A b \in Backends : \A c \in Backends \ {b} :
          /\ (pc[b] \in StorePcs /\ pc[c] \in StorePcs /\ tok[b] # tok[c] /\ Steps(b))
                => /\ temps'[tok[c]] = temps[tok[c]]
                   /\ \/ target' = target
                      \/ target' = <<File("full", sdoc[b], target'[1].mode)>>
          /\ (pc[b] \in StorePcs /\ Steps(b) /\ pc'[b] = "idle" /\ pc[c] = "idle"
                /\ res[procOf[c]] \in {"ok", "IOFailure"})
                => /\ \/ temps'[tok[b]] = <<>>
                      \/ pc[b] = "except" /\ temps' = temps
                   /\ exists(target') =>
                        /\ Parses(target')
                        /\ target'[1].doc \in
                             {sdoc[b], serialize(EmptyRoot)}
                               \cup {serialize(r) : r \in RaceRoots}
                               \cup {serialize(root[x][1]) : x \in {y \in Backends : root[y] # <<>>}}]_vars

(***************************************************************************)
(* C20: a backend that holds a Root does not read the file again until     *)
(* clear_cache.  A root access of such a backend keeps the held Root,      *)
(* whatever the file holds by then, and stores it: when the access returns *)
(* normally the document on disk is the held Root, so that a document      *)
(* another backend wrote in between is replaced by the stale Root.         *)
(***************************************************************************)
C20_StaleRootRewrite ==
    [][\A b \in Backends :
          /\ (RootAccess(b) /\ root[b] # <<>>)
                => /\ root'[b] = root[b]
                   /\ pc'[b] = "open"
                   /\ ctx'[b] = "exit"
                   /\ sdoc'[b] = serialize(root[b][1])
          /\ (ctx[b] = "exit" /\ Steps(b))
                => root'[b] = root[b]
          /\ (ctx[b] = "exit" /\ Steps(b) /\ pc'[b] = "idle" /\ res'[procOf[b]] = "ok")
                => Parses(target') /\ load(target') = root[b][1]
          /\ (root[b] # <<>> /\ root'[b] # root[b])
                => clear_cache(b) \/ crashes' # crashes]_vars

\* the path holds a complete document that another backend wrote after b
\* loaded its Root; the root access of b is about to rename over it the
\* temporary file that holds the Root b has held since
C20_Witness ==
    \E b \in Backends :
        /\ ctx[b] = "exit"
        /\ pc[b] = "move"
        /\ root[b] # <<>>
        /\ root[b][1] # EmptyRoot
        /\ Parses(target)
        /\ load(target) = EmptyRoot
        /\ temps[tok[b]] # <<>>
        /\ temps[tok[b]][1].kind = "full"
        /\ temps[tok[b]][1].doc = serialize(root[b][1])

====
